---- MODULE Spec2Model ----
(***************************************************************************)
(* State-machine model of the hooks and the chat controller of the         *)
(* repository:                                                             *)
(*   - useAuth          (login / signup form)                              *)
(*   - useGamePage      (join / leave / update wiring of the game page)    *)
(*   - chatController   (REST routes, socket rooms) and chat.service       *)
(*   - useDirectMessage (direct-message client hook)                       *)
(* Each hook or controller has its own specification (SpecAuth, SpecGame,  *)
(* SpecServer, SpecChat) over one set of variables; a specification leaves *)
(* the variables of the other components unchanged.                        *)
(***************************************************************************)
EXTENDS Integers, Sequences, FiniteSets, TLC

VARIABLES
  \* ---- useAuth ----
  authType,              \* hook parameter: "login" | "signup"
  username, password, passwordConfirmation,   \* input states (sequences of characters)
  err,                   \* error message state ('' when none)
  authPending,           \* number of loginUser / createUser calls in flight
  apiCall,               \* API function the last handleSubmit called ("none" if none)
  userSet,               \* setUser(user) has been called
  authLocation,          \* current route: "/login" until navigate('/home')
  apiSucceeded,          \* history: some API call has resolved
  authLast,              \* history: the last step of the hook
  \* ---- useGamePage ----
  gameID,                \* useParams().gameID (Null when the route has none)
  gSocket,               \* whether useUserContext() gave a socket
  gameState, joinedGameID, gError,            \* the three useState cells
  joinPc,                \* handleJoinGame: "idle" | "pending" | "ok" | "failed"
  leavePc,               \* handleLeaveGame: "idle" | "pending"
  leaveClosure,          \* joinedGameID captured by the pending handleLeaveGame
  gListeners,            \* 'gameUpdate' / 'gameError' listeners registered
  gMounted,              \* the component using the hook is mounted
  gLocation,             \* current route: "/game" until navigate('/games')
  gEmitted,              \* socket events emitted by the hook, in order
  navCalls,              \* number of navigate('/games') calls
  leaveCalls,            \* number of handleLeaveGame invocations
  gLast,                 \* history: the last step of the hook
  \* ---- chatController / chat.service ----
  dbChats,               \* ChatModel: chat id -> document (exists, participants, messages)
  msgCount,              \* MessageModel: number of message documents created
  rooms,                 \* socket rooms: connection -> set of room names
  outbox,                \* 'joinChat' / 'leaveChat' events in flight, per connection
  inbox,                 \* 'chatUpdate' events in flight, per connection
  res,                   \* the HTTP response of the last route call
  lastReq,               \* history: the last route call and what it did
  sentLast,              \* history: the last of joinChat / leaveChat a connection sent for a chat
  \* ---- useDirectMessage (on connection Me) ----
  dmMounted,             \* the component using the hook is mounted
  selectedChat, chats, newMessage,       \* useState cells
  dmPending,             \* the handler awaiting its REST call, with what it captured
  fetchPending,          \* a fetchChats call is in flight
  lastHandled            \* history: what the last handleChatUpdate call did

authVars == <<authType, username, password, passwordConfirmation, err, authPending,
              apiCall, userSet, authLocation, apiSucceeded, authLast>>
gameVars == <<gameID, gSocket, gameState, joinedGameID, gError, joinPc, leavePc,
              leaveClosure, gListeners, gMounted, gLocation, gEmitted, navCalls,
              leaveCalls, gLast>>
serverVars == <<dbChats, msgCount, rooms, outbox, inbox, res, lastReq, sentLast>>
dmVars == <<dmMounted, selectedChat, chats, newMessage, dmPending, fetchPending,
            lastHandled>>
vars == <<authVars, gameVars, serverVars, dmVars>>

\* JavaScript's null / undefined, as values of the model.
Null == "<null>"
Undefined == "<undefined>"

(***************************************************************************)
(* Bounds of the model.                                                    *)
(***************************************************************************)
MaxStrLen == 2          \* longest input string typed into the auth form
MaxAuthPending == 1     \* auth API calls in flight at once
MaxLeaves == 2          \* handleLeaveGame invocations explored

(***************************************************************************)
(* useAuth                                                                 *)
(***************************************************************************)
Chars == {" ", "a"}
Strs == UNION {[1..n -> Chars] : n \in 0..MaxStrLen}

RECURSIVE TrimStart(_)
TrimStart(s) == IF s # <<>> /\ Head(s) = " " THEN TrimStart(Tail(s)) ELSE s
RECURSIVE TrimEnd(_)
TrimEnd(s) == IF s # <<>> /\ s[Len(s)] = " " THEN TrimEnd(SubSeq(s, 1, Len(s) - 1)) ELSE s
\* String.prototype.trim
Trim(s) == TrimEnd(TrimStart(s))

AuthInit ==
  /\ authType \in {"login", "signup"}
  /\ username = <<>> /\ password = <<>> /\ passwordConfirmation = <<>>
  /\ err = ""
  /\ authPending = 0
  /\ apiCall = "none"
  /\ userSet = FALSE
  /\ authLocation = "/login"
  /\ apiSucceeded = FALSE
  /\ authLast = "init"

handleInputChange(field, value) ==
  /\ authLocation = "/login"
  /\ username' = IF field = "username" THEN value ELSE username
  /\ password' = IF field = "password" THEN value ELSE password
  /\ passwordConfirmation' = IF field = "confirmPassword" THEN value ELSE passwordConfirmation
  /\ authLast' = "input"
  /\ UNCHANGED <<authType, err, authPending, apiCall, userSet, authLocation, apiSucceeded>>

\* validateInputs with the signup password comparison left out.
validateInputsNoMatch ==
  IF Trim(username) = <<>> THEN [ok |-> FALSE, err |-> "Username is required"]
  ELSE IF Trim(password) = <<>> THEN [ok |-> FALSE, err |-> "Password is required"]
  ELSE IF authType = "signup" /\ Trim(passwordConfirmation) = <<>>
    THEN [ok |-> FALSE, err |-> "Password confirmation is required"]
  ELSE [ok |-> TRUE, err |-> err]

\* validateInputs: its boolean result and the err state it leaves.
validateInputs ==
  IF Trim(username) = <<>> THEN [ok |-> FALSE, err |-> "Username is required"]
  ELSE IF Trim(password) = <<>> THEN [ok |-> FALSE, err |-> "Password is required"]
  ELSE IF authType = "signup" /\ Trim(passwordConfirmation) = <<>>
    THEN [ok |-> FALSE, err |-> "Password confirmation is required"]
  ELSE IF authType = "signup" /\ password # passwordConfirmation
    THEN [ok |-> FALSE, err |-> "Passwords do not match"]
  ELSE [ok |-> TRUE, err |-> err]

\* handleSubmit up to its await: validation, then the API call.
handleSubmit ==
  /\ authLocation = "/login"
  /\ authPending < MaxAuthPending
  /\ LET v == validateInputs IN
     /\ err' = v.err
     /\ IF ~v.ok
          THEN /\ apiCall' = "none"
               /\ authLast' = "submitInvalid"
               /\ UNCHANGED authPending
          ELSE /\ apiCall' = (IF authType = "login" THEN "loginUser" ELSE "createUser")
               /\ authPending' = authPending + 1
               /\ authLast' = "submitCalled"
  /\ UNCHANGED <<authType, username, password, passwordConfirmation, userSet,
                 authLocation, apiSucceeded>>

\* handleSubmit after the await, the API call having resolved.
handleSubmitResolved ==
  /\ authPending > 0
  /\ authPending' = authPending - 1
  /\ userSet' = TRUE
  /\ authLocation' = "/home"
  /\ apiSucceeded' = TRUE
  /\ authLast' = "resolved"
  /\ UNCHANGED <<authType, username, password, passwordConfirmation, err, apiCall>>

\* handleSubmit after the await, the API call having thrown: console.log only.
handleSubmitRejected ==
  /\ authPending > 0
  /\ authPending' = authPending - 1
  /\ authLast' = "rejected"
  /\ UNCHANGED <<authType, username, password, passwordConfirmation, err, apiCall,
                 userSet, authLocation, apiSucceeded>>

(***************************************************************************)
(* useGamePage                                                             *)
(***************************************************************************)
UserId == "u1"                         \* user._id of the logged-in user
GameIds == {"g1", "g2"}
Statuses == {"WAITING_TO_START", "IN_PROGRESS", "OVER"}
GameInstances == [gameID : GameIds, status : Statuses]
NullGame == [gameID |-> Null, status |-> Null]      \* gameState = null

\* The state after the first render and its effect: handleJoinGame(gameID) is in
\* flight when the route has a gameID, and the listeners are on when there is a socket.
GameInit ==
  /\ gameID \in {"g1", Null}
  /\ gSocket \in BOOLEAN
  /\ gameState = NullGame /\ joinedGameID = Null /\ gError = Null
  /\ joinPc = (IF gameID # Null THEN "pending" ELSE "idle")
  /\ leavePc = "idle"
  /\ leaveClosure = Null
  /\ gListeners = gSocket
  /\ gMounted = TRUE
  /\ gLocation = "/game"
  /\ gEmitted = <<>>
  /\ navCalls = 0
  /\ leaveCalls = 0
  /\ gLast = "init"

\* setGameState / setJoinedGameID / setError: no effect once the component is unmounted.
SetGame(g, j, e) ==
  IF gMounted
    THEN gameState' = g /\ joinedGameID' = j /\ gError' = e
    ELSE UNCHANGED <<gameState, joinedGameID, gError>>

\* handleJoinGame after the await, joinGame having resolved with the game.
handleJoinGameResolved(game) ==
  /\ joinPc = "pending"
  /\ game.gameID = gameID
  /\ joinPc' = "ok"
  /\ SetGame(game, gameID, Null)
  /\ gEmitted' = (IF gSocket THEN Append(gEmitted, <<"joinGame", gameID>>) ELSE gEmitted)
  /\ gLast' = "joined"
  /\ UNCHANGED <<gameID, gSocket, leavePc, leaveClosure, gListeners, gMounted, gLocation,
                 navCalls, leaveCalls>>

\* handleJoinGame after the await, joinGame having thrown.
handleJoinGameRejected ==
  /\ joinPc = "pending"
  /\ joinPc' = "failed"
  /\ SetGame(NullGame, Null, "Failed to join the game.")
  /\ gLast' = "joinFailed"
  /\ UNCHANGED <<gameID, gSocket, leavePc, leaveClosure, gListeners, gMounted, gLocation,
                 gEmitted, navCalls, leaveCalls>>

\* The 'gameUpdate' listener.
handleGameUpdate(updatedState) ==
  /\ gListeners
  /\ SetGame(updatedState, joinedGameID, gError)
  /\ gLast' = "gameUpdate"
  /\ UNCHANGED <<gameID, gSocket, joinPc, leavePc, leaveClosure, gListeners, gMounted,
                 gLocation, gEmitted, navCalls, leaveCalls>>

\* The 'gameError' listener.
handleGameError(player, error) ==
  /\ gListeners
  /\ SetGame(gameState, joinedGameID, IF player = UserId THEN error ELSE gError)
  /\ gLast' = "gameError"
  /\ UNCHANGED <<gameID, gSocket, joinPc, leavePc, leaveClosure, gListeners, gMounted,
                 gLocation, gEmitted, navCalls, leaveCalls>>

\* The end of handleLeaveGame: the three setters, then navigate('/games').
\* how (history) tells which path of the handler reached it.
leaveTail(how) ==
  /\ SetGame(NullGame, Null, Null)
  /\ navCalls' = navCalls + 1
  /\ gLocation' = "/games"
  /\ leavePc' = "idle"
  /\ leaveClosure' = Null
  /\ gLast' = how

\* handleLeaveGame up to its await (or to its end when the guard fails).
handleLeaveGame ==
  /\ gMounted
  /\ leavePc = "idle"
  /\ leaveCalls < MaxLeaves
  /\ leaveCalls' = leaveCalls + 1
  /\ IF joinedGameID # Null /\ gameState # NullGame /\ gameState.status # "OVER"
       THEN /\ leavePc' = "pending"
            /\ leaveClosure' = joinedGameID
            /\ gLast' = "leaveCalled"
            /\ UNCHANGED <<gameState, joinedGameID, gError, navCalls, gLocation>>
       ELSE leaveTail("leaveDone")
  /\ UNCHANGED <<gameID, gSocket, joinPc, gListeners, gMounted, gEmitted>>

\* handleLeaveGame after the await, leaveGame having resolved.
handleLeaveGameResolved ==
  /\ leavePc = "pending"
  /\ gEmitted' = (IF gSocket THEN Append(gEmitted, <<"leaveGame", leaveClosure>>)
                  ELSE gEmitted)
  /\ leaveTail("leaveDoneResolved")
  /\ UNCHANGED <<gameID, gSocket, joinPc, gListeners, gMounted, leaveCalls>>

\* handleLeaveGameRejected without the setError(null) that follows the catch block.
handleLeaveGameRejectedKeepsError ==
  /\ leavePc = "pending"
  /\ SetGame(NullGame, Null, "Failed to leave the game.")
  /\ navCalls' = navCalls + 1
  /\ gLocation' = "/games"
  /\ leavePc' = "idle"
  /\ leaveClosure' = Null
  /\ gLast' = "leaveDoneRejected"
  /\ UNCHANGED <<gameID, gSocket, joinPc, gListeners, gMounted, leaveCalls, gEmitted>>

\* handleLeaveGame after the await, leaveGame having thrown: setError('Failed to
\* leave the game.') in the catch block, then the tail, whose setError(null) wins.
handleLeaveGameRejected ==
  /\ leavePc = "pending"
  /\ leaveTail("leaveDoneRejected")
  /\ UNCHANGED <<gameID, gSocket, joinPc, gListeners, gMounted, leaveCalls, gEmitted>>

\* The effect's cleanup when the route change unmounts the page.
gameUnmount ==
  /\ gMounted
  /\ gLocation = "/games"
  /\ gMounted' = FALSE
  /\ gListeners' = FALSE
  /\ gLast' = "unmount"
  /\ UNCHANGED <<gameID, gSocket, gameState, joinedGameID, gError, joinPc, leavePc,
                 leaveClosure, gLocation, gEmitted, navCalls, leaveCalls>>

(***************************************************************************)
(* chatController and chat.service                                         *)
(***************************************************************************)
MaxMsgs == 2            \* message documents the database can hold
MaxQueue == 2           \* events in flight from the hook's connection
MaxInFlight == 1        \* events in flight from a connection that is not the hook's
MaxInbox == 1           \* 'chatUpdate' events in flight per connection

Me == "c1"                             \* the connection of the useDirectMessage client
Conns == {"c1", "c2"}                  \* socket connections
Users == {"u1", "u2", "u3"}
ChatOrder == <<"chat1", "chat2">>      \* the ids the database gives to chats, in order
ChatIds == {ChatOrder[i] : i \in 1..Len(ChatOrder)}
MsgId(i) == "m" \o ToString(i)

\* Values a JSON request field can hold: t is its typeof (arrays apart), s the
\* content of a string or number, a the elements of an array.
Undef == [t |-> "undefined", s |-> "", a |-> <<>>]
Str(x) == [t |-> "string", s |-> x, a |-> <<>>]
Num(x) == [t |-> "number", s |-> x, a |-> <<>>]
Arr(x) == [t |-> "array", s |-> "", a |-> x]
\* !!v
Truthy(v) == CASE v.t = "undefined" -> FALSE
               [] v.t = "string" -> v.s # ""
               [] v.t = "number" -> v.s # "0"
               [] OTHER -> TRUE
\* !!id for a socket event argument or a route parameter (a string or undefined)
TruthyId(id) == id # "" /\ id # Undefined

\* A chat document; NoChat stands for null / undefined where a chat is expected.
NoChat == [_id |-> Undefined, participants |-> {}, messages |-> <<>>]
NoDoc == [exists |-> FALSE, participants |-> {}, messages |-> <<>>]
Range(seq) == {seq[i] : i \in 1..Len(seq)}

\* populateDocument(chatId, 'chat'): the chat document as the database holds it.
populateDocument(db, chatId) ==
  [_id |-> chatId, participants |-> db[chatId].participants, messages |-> db[chatId].messages]

\* What a client receives as the argument of 'chatUpdate': the object emitted is the
\* populated chat document itself, so its `type` and `chat` properties are undefined.
\* route, added, by and members are history (not visible to the client): the emitting
\* route, the id of the message it added, the msgFrom of the request, and (set by
\* EmitToRoom) the connections in the room when it was emitted.
Payload(doc, route, added, by) ==
  [type |-> Undefined, chat |-> NoChat, doc |-> doc, route |-> route, added |-> added,
   by |-> by, members |-> {}]

NoReq == [route |-> "none"]

\* socket.emit in the place of socket.to(room).emit: every connection gets the event.
EmitToRoomBroadcast(room, payload) ==
  inbox' = [c \in Conns |->
              Append(inbox[c], [payload EXCEPT !.members = {d \in Conns : room \in rooms[d]}])]

\* socket.to(room).emit('chatUpdate', payload): to the connections in the room.
\* members (history) is the set of connections in the room at this moment.
EmitToRoom(room, payload) ==
  inbox' = [c \in Conns |->
              IF room \in rooms[c]
                THEN Append(inbox[c],
                            [payload EXCEPT !.members = {d \in Conns : room \in rooms[d]}])
                ELSE inbox[c]]

\* socket.emit('chatUpdate', payload): to every connection.
EmitToAll(payload) ==
  inbox' = [c \in Conns |-> Append(inbox[c], payload)]

NoEmission == inbox' = inbox

\* res.status(status).json(...), and the record of the call.
Reply(route, req, status, error, doc, calls, emitted) ==
  /\ res' = [status |-> status, error |-> error, doc |-> doc]
  /\ lastReq' = [route |-> route, req |-> req, status |-> status, dbCalls |-> calls,
                 emitted |-> emitted]

InboxRoom == \A c \in Conns : Len(inbox[c]) < MaxInbox

isCreateChatRequestValid(req) ==
  LET participants == IF req.hasBody THEN req.participants ELSE Undef IN
  participants.t = "array" /\ Len(participants.a) > 0

\* isAddMessageRequestValid without its two typeof checks.
isAddMessageRequestValidNoTypeof(req) ==
  /\ req.hasBody
  /\ Truthy(req.msg)
  /\ Truthy(req.msgFrom)

isAddMessageRequestValid(req) ==
  /\ req.hasBody
  /\ Truthy(req.msg)
  /\ Truthy(req.msgFrom)
  /\ req.msg.t = "string"
  /\ req.msgFrom.t = "string"

\* req.params is always defined; chatId is one of its properties.
isAddParticipantRequestValid(req) ==
  /\ req.hasBody
  /\ Truthy(req.participantId)
  /\ Truthy(req.chatId)
  /\ req.participantId.t = "string"
  /\ req.chatId.t = "string"

FreeChats == {i \in 1..Len(ChatOrder) : ~dbChats[ChatOrder[i]].exists}

\* saveChat: a new ChatModel document with the participants given and no messages.
saveChat(id, participants) ==
  [dbChats EXCEPT ![id] = [exists |-> TRUE, participants |-> participants,
                           messages |-> <<>>]]

\* addMessageToChat: findByIdAndUpdate(chatId, {$push: {messages: messageId}}).
addMessageToChat(chatId, messageId) ==
  [dbChats EXCEPT ![chatId].messages = Append(@, messageId)]

\* addParticipantToChat: findByIdAndUpdate(chatId, {$addToSet: {participants: userId}}).
addParticipantToChat(chatId, userId) ==
  [dbChats EXCEPT ![chatId].participants = @ \cup {userId}]

\* Whether findByIdAndUpdate finds the chat.
ChatFound(chatId) == chatId \in ChatIds /\ dbChats[chatId].exists

\* createChatRoute. fault names the database-access function that fails, if any.
createChatRoute(req, fault) ==
  /\ InboxRoom
  /\ UNCHANGED <<rooms, outbox, sentLast, msgCount>>
  /\ IF ~isCreateChatRequestValid(req)
       THEN /\ Reply("createChat", req, 400, "Invalid request body", NoChat, <<>>, FALSE)
            /\ NoEmission /\ UNCHANGED dbChats
     ELSE IF fault = "saveChat"
       THEN /\ Reply("createChat", req, 500, "saveChat", NoChat, <<"saveChat">>, FALSE)
            /\ NoEmission /\ UNCHANGED dbChats
     ELSE
       /\ FreeChats # {}
       /\ LET id == ChatOrder[CHOOSE i \in FreeChats : \A j \in FreeChats : i <= j]
              db == saveChat(id, Range(req.participants.a))
              doc == populateDocument(db, id)
          IN
          /\ dbChats' = db
          /\ IF fault = "populateDocument"
               THEN /\ Reply("createChat", req, 500, "Failed to create chat", NoChat,
                             <<"saveChat", "populateDocument">>, FALSE)
                    /\ NoEmission
               ELSE /\ EmitToAll(Payload(doc, "createChat", Undefined, Undefined))
                    /\ Reply("createChat", req, 200, "", doc,
                             <<"saveChat", "populateDocument">>, TRUE)

\* addMessageToChatRoute. req.chatId is the route parameter.
addMessageToChatRoute(req, fault) ==
  /\ InboxRoom
  /\ UNCHANGED <<rooms, outbox, sentLast>>
  /\ IF ~isAddMessageRequestValid(req)
       THEN /\ Reply("addMessage", req, 400, "Invalid request body", NoChat, <<>>, FALSE)
            /\ NoEmission /\ UNCHANGED <<dbChats, msgCount>>
     ELSE IF fault = "createMessage"
       THEN /\ Reply("addMessage", req, 500, "createMessage", NoChat,
                     <<"createMessage">>, FALSE)
            /\ NoEmission /\ UNCHANGED <<dbChats, msgCount>>
     ELSE
       /\ msgCount < MaxMsgs
       /\ msgCount' = msgCount + 1
       /\ IF fault = "addMessageToChat" \/ ~ChatFound(req.chatId)
            THEN /\ Reply("addMessage", req, 500, "addMessageToChat", NoChat,
                          <<"createMessage", "addMessageToChat">>, FALSE)
                 /\ NoEmission /\ UNCHANGED dbChats
            ELSE LET db == addMessageToChat(req.chatId, MsgId(msgCount + 1))
                     doc == populateDocument(db, req.chatId)
                 IN
                 /\ dbChats' = db
                 /\ IF fault = "populateDocument"
                      THEN /\ Reply("addMessage", req, 500, "Failed to add message to chat",
                                    NoChat, <<"createMessage", "addMessageToChat",
                                              "populateDocument">>, FALSE)
                           /\ NoEmission
                      ELSE /\ EmitToRoom(req.chatId,
                                         Payload(doc, "addMessage", MsgId(msgCount + 1), req.msgFrom.s))
                           /\ Reply("addMessage", req, 200, "", doc,
                                    <<"createMessage", "addMessageToChat",
                                      "populateDocument">>, TRUE)

\* addParticipantToChatRoute. req.chatId is the route parameter, as a request value.
addParticipantToChatRoute(req, fault) ==
  /\ InboxRoom
  /\ UNCHANGED <<rooms, outbox, sentLast, msgCount>>
  /\ IF ~isAddParticipantRequestValid(req)
       THEN /\ Reply("addParticipant", req, 400, "Invalid request body", NoChat, <<>>, FALSE)
            /\ NoEmission /\ UNCHANGED dbChats
     ELSE IF fault = "addParticipantToChat" \/ ~ChatFound(req.chatId.s)
       THEN /\ Reply("addParticipant", req, 500, "addParticipantToChat", NoChat,
                     <<"addParticipantToChat">>, FALSE)
            /\ NoEmission /\ UNCHANGED dbChats
     ELSE LET db == addParticipantToChat(req.chatId.s, req.participantId.s)
              doc == populateDocument(db, req.chatId.s)
          IN
          /\ dbChats' = db
          /\ IF fault = "populateDocument"
               THEN /\ Reply("addParticipant", req, 500, "Failed to add participant to chat",
                             NoChat, <<"addParticipantToChat", "populateDocument">>, FALSE)
                    /\ NoEmission
               ELSE /\ EmitToRoom(req.chatId.s, Payload(doc, "addParticipant", Undefined, Undefined))
                    /\ Reply("addParticipant", req, 200, "", doc,
                             <<"addParticipantToChat", "populateDocument">>, TRUE)

\* getChatRoute: the response to GET /:chatId (reads only).
getChatRoute(chatId, fault) ==
  IF ~TruthyId(chatId) THEN [status |-> 400, error |-> "Chat ID is required", doc |-> NoChat]
  ELSE IF fault = "getChat" \/ ~ChatFound(chatId)
    THEN [status |-> 500, error |-> "getChat", doc |-> NoChat]
  ELSE IF fault = "populateDocument"
    THEN [status |-> 500, error |-> "Failed to retrieve chat", doc |-> NoChat]
  ELSE [status |-> 200, error |-> "", doc |-> populateDocument(dbChats, chatId)]

\* getChatsByParticipants([p]): the chats whose participants include p, by id.
getChatsByParticipants(p) ==
  LET has(i) == dbChats[ChatOrder[i]].exists /\ p \in dbChats[ChatOrder[i]].participants
      F[i \in 0..Len(ChatOrder)] ==
        IF i = 0 THEN <<>> ELSE IF has(i) THEN Append(F[i - 1], ChatOrder[i]) ELSE F[i - 1]
  IN F[Len(ChatOrder)]

\* conn.on('joinChat', chatID => { if (chatID) conn.join(chatID) })
onJoinChat(c, chatID) ==
  IF TruthyId(chatID) THEN [rooms EXCEPT ![c] = @ \cup {chatID}] ELSE rooms

\* conn.on('leaveChat', chatID => { if (chatID) conn.leave(chatID) })
onLeaveChat(c, chatID) ==
  IF TruthyId(chatID) THEN [rooms EXCEPT ![c] = @ \ {chatID}] ELSE rooms

\* The server takes the next event of connection c off the wire and runs its listener.
onSocketEvent(c) ==
  /\ outbox[c] # <<>>
  /\ LET ev == Head(outbox[c]) IN
     rooms' = IF ev[1] = "joinChat" THEN onJoinChat(c, ev[2]) ELSE onLeaveChat(c, ev[2])
  /\ outbox' = [outbox EXCEPT ![c] = Tail(@)]
  /\ UNCHANGED <<dbChats, msgCount, inbox, res, lastReq, sentLast>>

\* The record of what a connection has sent last for each chat.
Sent(c, events) ==
  LET F[i \in 0..Len(events)] ==
        IF i = 0 THEN sentLast
        ELSE IF events[i][2] \in ChatIds
          THEN [F[i - 1] EXCEPT ![c][events[i][2]] = events[i][1]]
          ELSE F[i - 1]
  IN F[Len(events)]

\* socket.emit(ev, id) on the client side of connection c, for each of events in turn.
clientEmit(c, events) ==
  /\ Len(outbox[c]) + Len(events) <= MaxQueue
  /\ outbox' = [outbox EXCEPT ![c] = @ \o events]
  /\ sentLast' = Sent(c, events)

\* socket.emit(ev, id) by a client other than the hook: any id, or none.
connEmit(c, ev, id) ==
  /\ Len(outbox[c]) < MaxInFlight
  /\ outbox' = [outbox EXCEPT ![c] = Append(@, <<ev, id>>)]
  /\ sentLast' = Sent(c, <<<<ev, id>>>>)
  /\ UNCHANGED <<dbChats, msgCount, rooms, inbox, res, lastReq>>

ServerInit ==
  /\ dbChats = [id \in ChatIds |->
                  IF id = ChatOrder[1]
                    THEN [exists |-> TRUE, participants |-> {"u1", "u2"}, messages |-> <<>>]
                    ELSE NoDoc]
  /\ msgCount = 0
  /\ rooms = [c \in Conns |-> {}]
  /\ outbox = [c \in Conns |-> <<>>]
  /\ inbox = [c \in Conns |-> <<>>]
  /\ res = [status |-> 0, error |-> "", doc |-> NoChat]
  /\ lastReq = NoReq
  /\ sentLast = [c \in Conns |-> [id \in ChatIds |-> "leaveChat"]]

(***************************************************************************)
(* useDirectMessage, on connection Me, for the user UserId.                *)
(* A handler with an await is two steps: up to the await (the REST call,   *)
(* which the server handles at once, its response kept in dmPending) and   *)
(* after it. `chats` holds the chats by their _id.                         *)
(***************************************************************************)
NoPending == [op |-> "none"]
NoHandled == [route |-> "none"]

RECURSIVE Text(_)
\* The string of a sequence of characters.
Text(s) == IF s = <<>> THEN "" ELSE Head(s) \o Text(Tail(s))

DmInit ==
  /\ dmMounted = TRUE
  /\ selectedChat = NoChat
  /\ chats = <<>>
  /\ newMessage = <<>>
  /\ dmPending = NoPending
  /\ fetchPending = TRUE
  /\ lastHandled = NoHandled

\* No useDirectMessage component is mounted on connection Me.
DmAbsent ==
  /\ dmMounted = FALSE
  /\ selectedChat = NoChat
  /\ chats = <<>>
  /\ newMessage = <<>>
  /\ dmPending = NoPending
  /\ fetchPending = FALSE
  /\ lastHandled = NoHandled

\* handleJoinChat: socket.emit('joinChat', chatID)
handleJoinChat(chatID) == <<<<"joinChat", chatID>>>>

\* The cleanup of the effect as rendered with selectedChat = sel, without socket.off.
effectCleanup(sel) ==
  IF sel # NoChat /\ TruthyId(sel._id) THEN <<<<"leaveChat", sel._id>>>> ELSE <<>>

\* setSelectedChat(chat) in a handler that also emits `emitted`: the emits come first,
\* then the render, then the effect (selectedChat is one of its dependencies, and
\* every value set is a new object): the cleanup of the previous effect, then
\* fetchChats() and socket.on again. Once unmounted only the emits remain.
setSelectedChat(chat, emitted) ==
  IF dmMounted
    THEN /\ selectedChat' = chat
         /\ clientEmit(Me, emitted \o effectCleanup(selectedChat))
         /\ fetchPending' = TRUE
    ELSE /\ clientEmit(Me, emitted)
         /\ UNCHANGED <<selectedChat, fetchPending>>

\* handleChatSelect up to its await.
handleChatSelect(chatID, fault) ==
  /\ dmMounted /\ dmPending = NoPending
  /\ dmPending' = IF ~TruthyId(chatID) THEN NoPending
                  ELSE [op |-> "select", chatID |-> chatID,
                        res |-> getChatRoute(chatID, fault)]
  /\ lastHandled' = NoHandled
  /\ UNCHANGED <<dmMounted, selectedChat, chats, newMessage, fetchPending>>
  /\ UNCHANGED serverVars

\* handleChatSelect after its await; getChatById throws on a response other than 200.
handleChatSelectDone ==
  /\ dmPending # NoPending /\ dmPending.op = "select"
  /\ dmPending' = NoPending
  /\ IF dmPending.res.status = 200
       THEN setSelectedChat(dmPending.res.doc, handleJoinChat(dmPending.chatID))
       ELSE UNCHANGED <<selectedChat, fetchPending, outbox, sentLast>>
  /\ lastHandled' = NoHandled
  /\ UNCHANGED <<dmMounted, chats, newMessage>>
  /\ UNCHANGED <<dbChats, msgCount, rooms, inbox, res, lastReq>>

\* handleSendMessage up to its await.
handleSendMessage(fault) ==
  /\ dmMounted /\ dmPending = NoPending
  /\ IF Trim(newMessage) = <<>> \/ selectedChat = NoChat \/ ~TruthyId(selectedChat._id)
       THEN UNCHANGED <<dmPending, serverVars>>
       ELSE /\ addMessageToChatRoute([chatId |-> selectedChat._id, hasBody |-> TRUE,
                                      msg |-> Str(Text(Trim(newMessage))),
                                      msgFrom |-> Str(UserId)], fault)
            /\ dmPending' = [op |-> "send", closure |-> selectedChat, res |-> res']
  /\ lastHandled' = NoHandled
  /\ UNCHANGED <<dmMounted, selectedChat, chats, newMessage, fetchPending>>

\* handleSendMessage after its await; sendMessage throws on a response other than 200.
\* The element appended is the response body with a `user` property added.
handleSendMessageDone ==
  /\ dmPending # NoPending /\ dmPending.op = "send"
  /\ dmPending' = NoPending
  /\ IF dmPending.res.status = 200
       THEN /\ setSelectedChat([dmPending.closure EXCEPT
                                  !.messages = Append(@, dmPending.res.doc._id)], <<>>)
            /\ newMessage' = (IF dmMounted THEN <<>> ELSE newMessage)
       ELSE UNCHANGED <<selectedChat, fetchPending, outbox, sentLast, newMessage>>
  /\ lastHandled' = NoHandled
  /\ UNCHANGED <<dmMounted, chats>>
  /\ UNCHANGED <<dbChats, msgCount, rooms, inbox, res, lastReq>>

setNewMessage(value) ==
  /\ dmMounted
  /\ newMessage' = value
  /\ lastHandled' = NoHandled
  /\ UNCHANGED <<dmMounted, selectedChat, chats, dmPending,
                 fetchPending>>
  /\ UNCHANGED serverVars

\* fetchChats after its await: ok tells whether getChatsByUser resolved.
fetchChats(ok) ==
  /\ fetchPending
  /\ fetchPending' = FALSE
  /\ chats' = (IF ok /\ dmMounted THEN getChatsByParticipants(UserId) ELSE chats)
  /\ lastHandled' = NoHandled
  /\ UNCHANGED <<dmMounted, selectedChat, newMessage, dmPending>>
  /\ UNCHANGED serverVars

\* The 'chatUpdate' listener, run on the next event of the connection.
handleChatUpdate ==
  /\ dmMounted
  /\ inbox[Me] # <<>>
  /\ LET chatUpdate == Head(inbox[Me]) IN
     /\ inbox' = [inbox EXCEPT ![Me] = Tail(@)]
     /\ lastHandled' = [route |-> chatUpdate.route, type |-> chatUpdate.type,
                        chat |-> chatUpdate.doc._id, added |-> chatUpdate.added,
                        by |-> chatUpdate.by, thrown |-> FALSE,
                        chatsBefore |-> chats, selBefore |-> selectedChat]
     /\ IF chatUpdate.type = "created"
          THEN /\ chats' = Append(chats, chatUpdate.chat._id)
               /\ UNCHANGED <<selectedChat, fetchPending, outbox, sentLast>>
        ELSE IF chatUpdate.type = "newMessage" /\ selectedChat # NoChat
                /\ selectedChat._id = chatUpdate.chat._id
          THEN /\ setSelectedChat(
                    [selectedChat EXCEPT !.messages =
                       Append(@, IF chatUpdate.chat.messages = <<>> THEN Undefined
                                 ELSE chatUpdate.chat.messages[1])], <<>>)
               /\ UNCHANGED chats
        ELSE UNCHANGED <<chats, selectedChat, fetchPending, outbox, sentLast>>
  /\ UNCHANGED <<dmMounted, newMessage, dmPending>>
  /\ UNCHANGED <<dbChats, msgCount, rooms, res, lastReq>>

\* The cleanup of the effect when the component unmounts.
dmUnmount ==
  /\ dmMounted
  /\ dmMounted' = FALSE
  /\ clientEmit(Me, effectCleanup(selectedChat))
  /\ lastHandled' = NoHandled
  /\ UNCHANGED <<selectedChat, chats, newMessage, dmPending,
                 fetchPending>>
  /\ UNCHANGED <<dbChats, msgCount, rooms, inbox, res, lastReq>>

\* A 'chatUpdate' event reaching a connection with no listener on it.
connReceive(c) ==
  /\ c # Me \/ ~dmMounted
  /\ inbox[c] # <<>>
  /\ inbox' = [inbox EXCEPT ![c] = Tail(@)]
  /\ UNCHANGED <<dbChats, msgCount, rooms, outbox, res, lastReq, sentLast>>

(***************************************************************************)
(* Specifications. Each runs one component and leaves the others alone.    *)
(***************************************************************************)
Init ==
  /\ AuthInit /\ authType = "login"
  /\ GameInit /\ gameID = "g1" /\ gSocket
  /\ ServerInit
  /\ DmInit

\* ---- SpecAuth: the useAuth form ----
AuthChange ==
  /\ \E f \in {"username", "password", "confirmPassword"}, v \in Strs :
       handleInputChange(f, v)
  /\ UNCHANGED <<gameVars, serverVars, dmVars>>
AuthSubmit == handleSubmit /\ UNCHANGED <<gameVars, serverVars, dmVars>>
AuthResolved == handleSubmitResolved /\ UNCHANGED <<gameVars, serverVars, dmVars>>
AuthRejected == handleSubmitRejected /\ UNCHANGED <<gameVars, serverVars, dmVars>>
NextAuth == AuthChange \/ AuthSubmit \/ AuthResolved \/ AuthRejected
InitAuth == AuthInit /\ GameInit /\ gameID = "g1" /\ gSocket /\ ServerInit /\ DmInit
SpecAuth == InitAuth /\ [][NextAuth]_vars

\* ---- SpecGame: the useGamePage hook, the socket delivering any game's events ----
GameJoinResolved ==
  /\ \E g \in GameInstances : handleJoinGameResolved(g)
  /\ UNCHANGED <<authVars, serverVars, dmVars>>
GameJoinRejected == handleJoinGameRejected /\ UNCHANGED <<authVars, serverVars, dmVars>>
GameUpdate ==
  /\ \E g \in GameInstances : handleGameUpdate(g)
  /\ UNCHANGED <<authVars, serverVars, dmVars>>
GameError ==
  /\ \E p \in {"u1", "u2"} : handleGameError(p, "Invalid move")
  /\ UNCHANGED <<authVars, serverVars, dmVars>>
GameLeave == handleLeaveGame /\ UNCHANGED <<authVars, serverVars, dmVars>>
GameLeaveResolved == handleLeaveGameResolved /\ UNCHANGED <<authVars, serverVars, dmVars>>
GameLeaveRejected == handleLeaveGameRejected /\ UNCHANGED <<authVars, serverVars, dmVars>>
GameUnmount == gameUnmount /\ UNCHANGED <<authVars, serverVars, dmVars>>
NextGame ==
  \/ GameJoinResolved \/ GameJoinRejected \/ GameUpdate \/ GameError
  \/ GameLeave \/ GameLeaveResolved \/ GameLeaveRejected \/ GameUnmount
InitGame == AuthInit /\ authType = "login" /\ GameInit /\ ServerInit /\ DmInit
SpecGame == InitGame /\ [][NextGame]_vars

\* ---- SpecRoutes: the three POST routes, on request bodies of every shape ----
CreateChatReqs ==
  {[hasBody |-> FALSE, participants |-> Undef]} \cup
  [hasBody : {TRUE}, participants : {Undef, Arr(<<>>), Arr(<<"u1", "u2">>), Str("u1")}]
AddMessageReqs ==
  [chatId : ChatIds, hasBody : {FALSE}, msg : {Undef}, msgFrom : {Undef}] \cup
  [chatId : ChatIds, hasBody : {TRUE},
   msg : {Undef, Str(""), Str("hi"), Num("5")},
   msgFrom : {Undef, Str(""), Str("u2"), Num("5")}]
AddParticipantReqs ==
  [hasBody : {FALSE}, participantId : {Undef}, chatId : {Str("chat1")}] \cup
  [hasBody : {TRUE},
   participantId : {Undef, Str(""), Str("u3"), Num("5")},
   chatId : {Undef, Str(""), Str("chat1"), Str("chat2"), Num("5")}]
CreateChatFaults == {"none", "saveChat", "populateDocument"}
AddMessageFaults == {"none", "createMessage", "addMessageToChat", "populateDocument"}
AddParticipantFaults == {"none", "addParticipantToChat", "populateDocument"}

RoutesCreateChat ==
  /\ \E req \in CreateChatReqs, fault \in CreateChatFaults : createChatRoute(req, fault)
  /\ UNCHANGED <<authVars, gameVars, dmVars>>
RoutesAddMessage ==
  /\ \E req \in AddMessageReqs, fault \in AddMessageFaults : addMessageToChatRoute(req, fault)
  /\ UNCHANGED <<authVars, gameVars, dmVars>>
RoutesAddParticipant ==
  /\ \E req \in AddParticipantReqs, fault \in AddParticipantFaults : addParticipantToChatRoute(req, fault)
  /\ UNCHANGED <<authVars, gameVars, dmVars>>
RoutesReceive ==
  /\ \E c \in Conns : connReceive(c)
  /\ UNCHANGED <<authVars, gameVars, dmVars>>
NextRoutes == RoutesCreateChat \/ RoutesAddMessage \/ RoutesAddParticipant \/ RoutesReceive
InitRoutes ==
  /\ AuthInit /\ authType = "login"
  /\ GameInit /\ gameID = "g1" /\ gSocket
  /\ ServerInit
  /\ DmAbsent
SpecRoutes == InitRoutes /\ [][NextRoutes]_vars

\* ---- SpecRooms: connections joining and leaving rooms, well-formed requests ----
\* Connection c1 sends what a useDirectMessage client sends (the id of a chat);
\* connection c2 also sends a joinChat with an empty id and a leaveChat with none.
RoomsEmit ==
  /\ \E c \in Conns, e \in {<<"joinChat", "chat1">>, <<"leaveChat", "chat1">>,
                              <<"joinChat", "">>, <<"leaveChat", Undefined>>} :
       /\ c = Me => e[2] = "chat1"
       /\ connEmit(c, e[1], e[2])
  /\ UNCHANGED <<authVars, gameVars, dmVars>>
RoomsSocketEvent ==
  /\ \E c \in Conns : onSocketEvent(c)
  /\ UNCHANGED <<authVars, gameVars, dmVars>>
RoomsAddMessage ==
  /\ \E id \in {i \in ChatIds : dbChats[i].exists} :
       addMessageToChatRoute([chatId |-> id, hasBody |-> TRUE, msg |-> Str("hi"),
                              msgFrom |-> Str("u2")], "none")
  /\ UNCHANGED <<authVars, gameVars, dmVars>>
RoomsAddParticipant ==
  /\ \E id \in {i \in ChatIds : dbChats[i].exists} :
       addParticipantToChatRoute([hasBody |-> TRUE, participantId |-> Str("u3"),
                                  chatId |-> Str(id)], "none")
  /\ UNCHANGED <<authVars, gameVars, dmVars>>
RoomsReceive ==
  /\ \E c \in Conns : connReceive(c)
  /\ UNCHANGED <<authVars, gameVars, dmVars>>
NextRooms ==
  \/ RoomsEmit \/ RoomsSocketEvent \/ RoomsAddMessage
  \/ RoomsAddParticipant \/ RoomsReceive
SpecRooms == InitRoutes /\ [][NextRooms]_vars

\* ---- SpecChat: the useDirectMessage hook of user u1, the server, and user u2 ----
DmChatSelect ==
  /\ \E chatID \in ChatIds \cup {Undefined}, fault \in {"none", "getChat"} :
       handleChatSelect(chatID, fault)
  /\ UNCHANGED <<authVars, gameVars>>
DmChatSelectDone == handleChatSelectDone /\ UNCHANGED <<authVars, gameVars>>
DmSendMessage ==
  /\ \E fault \in {"none", "createMessage"} : handleSendMessage(fault)
  /\ UNCHANGED <<authVars, gameVars>>
DmSendMessageDone == handleSendMessageDone /\ UNCHANGED <<authVars, gameVars>>
DmSetNewMessage ==
  /\ \E v \in {<<" ">>, <<"a">>} : setNewMessage(v)
  /\ UNCHANGED <<authVars, gameVars>>
DmFetchChats ==
  /\ \E ok \in BOOLEAN : fetchChats(ok)
  /\ UNCHANGED <<authVars, gameVars>>
DmChatUpdate == handleChatUpdate /\ UNCHANGED <<authVars, gameVars>>
DmUnmount == dmUnmount /\ UNCHANGED <<authVars, gameVars>>
ChatSocketEvent ==
  /\ \E c \in Conns : onSocketEvent(c)
  /\ UNCHANGED <<authVars, gameVars, dmVars>>
ChatReceive ==
  /\ \E c \in Conns : connReceive(c)
  /\ UNCHANGED <<authVars, gameVars, dmVars>>
\* Requests of the other user of the chats, u2, through a client of its own.
OtherAddMessage ==
  /\ \E id \in {i \in ChatIds : dbChats[i].exists} :
       addMessageToChatRoute([chatId |-> id, hasBody |-> TRUE, msg |-> Str("hi"),
                              msgFrom |-> Str("u2")], "none")
  /\ UNCHANGED <<authVars, gameVars, dmVars>>
OtherCreateChat ==
  /\ createChatRoute([hasBody |-> TRUE, participants |-> Arr(<<"u2", "u1">>)], "none")
  /\ UNCHANGED <<authVars, gameVars, dmVars>>
NextChat ==
  \/ DmChatSelect \/ DmChatSelectDone \/ DmSendMessage \/ DmSendMessageDone
  \/ DmSetNewMessage
  \/ DmFetchChats \/ DmChatUpdate \/ DmUnmount
  \/ ChatSocketEvent \/ ChatReceive \/ OtherAddMessage \/ OtherCreateChat
SpecChat == Init /\ [][NextChat]_vars

(***************************************************************************)
(* Properties                                                              *)
(***************************************************************************)
Last(seq) == seq[Len(seq)]

\* C1: a connection is in room R exactly when the last joinChat / leaveChat it sent
\* with the non-empty id R is a joinChat (once the server has processed what it sent;
\* an empty or undefined id changes nothing, and names no room), and a 'chatUpdate'
\* emitted by addMessageToChatRoute or addParticipantToChatRoute for chat C is in
\* flight only to connections that were in room C when it was emitted.
RoomScopedBroadcast ==
  /\ \A c \in Conns : rooms[c] \subseteq ChatIds
  /\ \A c \in Conns :
       outbox[c] = <<>> => rooms[c] = {R \in ChatIds : sentLast[c][R] = "joinChat"}
  /\ \A c \in Conns : \A i \in 1..Len(inbox[c]) :
       inbox[c][i].route \in {"addMessage", "addParticipant"} => c \in inbox[c][i].members

\* C1 witness: c2 is in room chat1 and c1 is not, c2 has since sent a joinChat or
\* leaveChat without an id, and an addMessage update is in flight to c2 alone.
RoomScopedBroadcastWitness ==
  /\ rooms["c2"] = {"chat1"} /\ rooms["c1"] = {}
  /\ outbox["c2"] # <<>> /\ ~TruthyId(Head(outbox["c2"])[2])
  /\ inbox["c2"] # <<>> /\ Head(inbox["c2"]).route = "addMessage"
  /\ Head(inbox["c2"]).members = {"c2"}
  /\ inbox["c1"] = <<>>

\* A request field that is missing, empty or not a string.
NotAString(v) == v.t # "string" \/ v.s = ""
\* The last request is invalid in the terms of C2.
InvalidRequest ==
  CASE lastReq.route = "createChat" ->
         ~(lastReq.req.hasBody /\ lastReq.req.participants.t = "array"
           /\ lastReq.req.participants.a # <<>>)
    [] lastReq.route = "addMessage" ->
         ~lastReq.req.hasBody \/ NotAString(lastReq.req.msg) \/ NotAString(lastReq.req.msgFrom)
    [] lastReq.route = "addParticipant" ->
         ~lastReq.req.hasBody \/ NotAString(lastReq.req.participantId)
         \/ NotAString(lastReq.req.chatId)
    [] OTHER -> FALSE

\* C2: an invalid createChat, addMessage or addParticipant request is answered with
\* status 400, and for it no database-access function is called and no 'chatUpdate'
\* is emitted.
ValidationPrecedesMutation ==
  InvalidRequest =>
    /\ res.status = 400 /\ lastReq.status = 400
    /\ lastReq.dbCalls = <<>>
    /\ ~lastReq.emitted

\* C2 witness: an addMessage request whose msg is a number has been answered with 400.
ValidationPrecedesMutationWitness ==
  /\ lastReq.route = "addMessage"
  /\ lastReq.req.hasBody /\ lastReq.req.msg = Num("5") /\ lastReq.req.msgFrom = Str("u2")
  /\ res.status = 400

\* C3: while a chat is the selected chat of the mounted component, the last of
\* joinChat / leaveChat the client emitted for it is a joinChat, so that once the
\* server has processed every emitted event the connection is in the chat's room.
StaysSubscribed ==
  dmMounted /\ selectedChat # NoChat =>
    /\ sentLast[Me][selectedChat._id] = "joinChat"
    /\ outbox[Me] = <<>> => selectedChat._id \in rooms[Me]

\* C4: when the client, with chat X selected and in room X, has handled the
\* 'chatUpdate' of another user's successful addMessage of m to X, m is the last
\* element of selectedChat.messages.
MergeOnReceive ==
  ( /\ lastHandled.route = "addMessage"
    /\ lastHandled.by # UserId
    /\ lastHandled.selBefore # NoChat
    /\ lastHandled.selBefore._id = lastHandled.chat )
  => /\ selectedChat.messages # <<>>
     /\ Last(selectedChat.messages) = lastHandled.added

\* C5: a successful createChatRoute emits a 'chatUpdate', and a mounted client that
\* has handled that event has appended the new chat to `chats`.
CreationShared ==
  /\ lastReq.route = "createChat" /\ lastReq.status = 200 => lastReq.emitted
  /\ lastHandled.route = "createChat" =>
       chats = Append(lastHandled.chatsBefore, lastHandled.chat)

\* C6: whenever no game is joined (joinedGameID = null), gameState is null.
GameStateNullWhenNotJoined ==
  gMounted /\ joinedGameID = Null => gameState = NullGame

\* C7: when handleLeaveGame completes, navigate('/games') has been called once for
\* each call of it, and gameState, joinedGameID and error are all null.
LeaveReturnsToGamesList ==
  gLast \in {"leaveDone", "leaveDoneResolved", "leaveDoneRejected"} =>
    /\ navCalls = leaveCalls
    /\ gLocation = "/games"
    /\ gMounted => gameState = NullGame /\ joinedGameID = Null /\ gError = Null

\* C7 witness: handleLeaveGame has completed after the leaveGame call failed, for a
\* game that was joined and in progress.
LeaveReturnsToGamesListWitness ==
  gLast = "leaveDoneRejected" /\ gMounted /\ joinPc = "ok"

\* The inputs pass the checks C8 names.
InputsValid ==
  /\ Trim(username) # <<>>
  /\ Trim(password) # <<>>
  /\ authType = "signup" => Trim(passwordConfirmation) # <<>> /\ passwordConfirmation = password
\* The message of the first check C8 names that fails.
FirstFailure ==
  CASE Trim(username) = <<>> -> "Username is required"
    [] Trim(password) = <<>> -> "Password is required"
    [] Trim(passwordConfirmation) = <<>> -> "Password confirmation is required"
    [] OTHER -> "Passwords do not match"

\* C8: handleSubmit calls loginUser (login) or createUser (signup) if and only if the
\* inputs are valid; otherwise err is the message of the first failing check and no
\* call is made; setUser and navigate('/home') happen if and only if a call succeeded.
SubmitValidatesThenCalls ==
  /\ authLast = "submitCalled" =>
       /\ InputsValid
       /\ apiCall = (IF authType = "login" THEN "loginUser" ELSE "createUser")
  /\ authLast = "submitInvalid" =>
       /\ ~InputsValid
       /\ apiCall = "none"
       /\ err = FirstFailure
  /\ userSet <=> apiSucceeded
  /\ authLocation = "/home" <=> apiSucceeded

\* C8 witness: a signup whose confirmation differs from the password only by
\* surrounding whitespace has been refused.
SubmitValidatesThenCallsWitness ==
  /\ authType = "signup" /\ authLast = "submitInvalid"
  /\ password # passwordConfirmation
  /\ Trim(password) = Trim(passwordConfirmation) /\ Trim(password) # <<>>
  /\ err = "Passwords do not match"

\* C9: after handleSubmit has completed with a failed loginUser / createUser call,
\* err holds a non-empty message and no navigation has happened.
AuthFailureShowsError ==
  authLast = "rejected" => err # "" /\ authLocation = "/login"

\* C10: a handled 'chatUpdate' whose type is neither 'created' nor 'newMessage' has
\* made the handler throw, with `chats` and `selectedChat` unchanged.
InvalidUpdateThrows ==
  lastHandled.route # "none" /\ lastHandled.type \notin {"created", "newMessage"} =>
    /\ lastHandled.thrown
    /\ chats = lastHandled.chatsBefore
    /\ selectedChat = lastHandled.selBefore
====
